---- MODULE Spec2Model ----
(***************************************************************************)
(* DeezerClient (src/downloader/deezer/client.py): concurrent download()   *)
(* calls on one client instance, run by asyncio's cooperative scheduler.   *)
(* One action is one atomic run of a coroutine between two suspension      *)
(* points (an HTTP call, asyncio.sleep, a wait for the semaphore or the    *)
(* setup lock).                                                            *)
(*                                                                         *)
(* Time is counted in ticks of 50 ms and measured from the present: the    *)
(* clock reads now = 0, a timestamp t ticks old is -t, and a tick of the   *)
(* clock ages every stored timestamp by one.  The code only compares       *)
(* now - last_request_time with the minimum spacing, so a timestamp older  *)
(* than MinSpacing is kept as -MinSpacing, and a deadline that has passed  *)
(* as 0.                                                                   *)
(***************************************************************************)
EXTENDS Integers, Sequences, FiniteSets, TLC

\* ---------------------------------------------------------------- bounds
NumDownloads == 2       \* concurrent download() calls modelled in detail
MaxBurst == 32          \* download() calls of the burst specification
MaxFullChunks == 4      \* full chunks of a media stream
NumItems == 3           \* documents of the collection
BatchSize == 2          \* batch_size of mass_download

\* ------------------------------------------------------- program constants
RateLimit == 30         \* asyncio.Semaphore(30)
MinSpacing == 2         \* 0.1 s, in ticks of 50 ms
KeyLen == 16            \* range(16): the bytes of a Blowfish key
ChunkSize == 2048       \* aiter_bytes(chunk_size=2048), len(data) == 2048
Stride == 3             \* iterations % 3 == 0
BlockSize == 8          \* the bytes of a Blowfish block, and of the IV
IV == 1                 \* bytes([i for i in range(8)]), as one block

Procs == 1..NumDownloads
NoOne == 0              \* the setup lock is free
None == "None"          \* Python's None
Missing == "Missing"    \* a key the JSON body does not have
now == 0                \* time.time(): the present instant

VARIABLES
    pc,                     \* where each download() coroutine is suspended
    step,                   \* the protocol operation a download is in
    outcome,                \* what download() returned or raised
    rate_limit_semaphore,   \* the semaphore's free slots
    setup_lock,             \* the holder of _setup_lock, or NoOne
    is_setup,               \* self._is_setup
    api_key,                \* self.api_key
    license_token,          \* self.license_token
    headers,                \* self.headers (the sid of the cookie)
    last_request_time,      \* self.last_request_time
    wake,                   \* the deadline of a download's asyncio.sleep
    sent,                   \* history: the requests a download has issued
    handshake,              \* history: how a download's own handshake ended
    readTime,               \* history: last_request_time as a sleeper read it
    lastPass,               \* history: when a download last passed the limiter
    lastRelease,            \* history: when a slot was last released
    waiting,                \* burst: calls waiting for a slot
    inside,                 \* burst: calls inside the rate-limited section
    finished,               \* burst: calls that have left it
    master_key,             \* self.master_key, as a sequence of characters
    call,                   \* calls: the operation called last and its result
    stream,                 \* calls: the chunks of the media response
    blowfish_key,           \* _decrypt_track: the derived key
    iterations,             \* _decrypt_track: the loop counter
    decrypted_data,         \* _decrypt_track: the chunks written so far
    deciphered,             \* history: the ordinals passed to _decrypt_chunk
    doc_status,             \* batch: the status field of each document
    loop,                   \* batch: where mass_download is
    batch,                  \* batch: the documents of the current batch
    task,                   \* batch: where each download_and_update is
    towrite,                \* batch: the status a task is about to record
    handler,                \* batch: the task is inside an except clause
    audio,                  \* batch: audio.mp3 of the document is written
    writes,                 \* history: the status writes done for a document
    failedWrite,            \* history: a status write of the task has raised
    downloads,              \* history: how often a document was downloaded
    batches,                \* history: the batches processed
    track_data,             \* history: what download_track gave the task
    caught,                 \* history: the exception an except clause took
    trackId,                \* download's local track_id
    track,                  \* download's local track (its TRACK_TOKEN)
    url,                    \* download's local url
    issued,                 \* backend: the track tokens issued so far
    resolved,               \* history: the id the ISRC lookup returned
    fetched,                \* history: the token song.getData returned
    negotiated,             \* history: the tokens sent to get_url, in order
    keyed                   \* history: the id the key was derived from

clientVars == <<setup_lock, is_setup, api_key, license_token, headers>>
burstVars == <<waiting, inside, finished>>
downloadVars == <<pc, step, outcome, rate_limit_semaphore, last_request_time,
                  wake, sent, handshake, readTime, lastPass, lastRelease>>
streamVars == <<stream, blowfish_key, iterations, decrypted_data, deciphered>>
batchVars == <<doc_status, loop, batch, task, towrite, handler, audio, writes,
               failedWrite, downloads, batches, track_data, caught>>
callVars == <<master_key, call, streamVars>>
flowVars == <<trackId, track, url, issued, resolved, fetched, negotiated,
              keyed>>
vars == <<pc, step, outcome, rate_limit_semaphore, setup_lock, is_setup,
          api_key, license_token, headers, last_request_time, wake,
          sent, handshake, readTime, lastPass, lastRelease,
          waiting, inside, finished, master_key, call, stream,
          blowfish_key, iterations, decrypted_data, deciphered,
          doc_status, loop, batch, task, towrite, handler, audio, writes,
          failedWrite, downloads, batches, track_data, caught,
          trackId, track, url, issued, resolved, fetched, negotiated, keyed>>

\* a string is the sequence of its characters; the master key the client of
\* the download specifications is built with
DefaultKey ==
    <<"s", "3", "c", "r", "3", "t", "m", "a", "s", "t", "3", "r", "k",
      "3", "y", "0">>

\* no operation has been called
NoCall ==
    [op |-> "none", request |-> None, resp |-> None, err |-> "none",
     value |-> None]

\* the state that is the same for every master key
InitClient ==
    /\ pc = [p \in Procs |-> "idle"]
    /\ step = [p \in Procs |-> "none"]
    /\ outcome = [p \in Procs |-> "none"]
    /\ rate_limit_semaphore = RateLimit
    /\ setup_lock = NoOne
    /\ is_setup = FALSE
    /\ api_key = None
    /\ license_token = None
    /\ headers = None
    /\ last_request_time = now
    /\ wake = [p \in Procs |-> 0]
    /\ sent = [p \in Procs |-> <<>>]
    /\ handshake = [p \in Procs |-> "none"]
    /\ readTime = [p \in Procs |-> -MinSpacing]
    /\ lastPass = -MinSpacing
    /\ lastRelease = -MinSpacing
    /\ waiting = 0
    /\ inside = 0
    /\ finished = 0
    /\ call = NoCall
    /\ stream = <<>>
    /\ blowfish_key = <<>>
    /\ iterations = 0
    /\ decrypted_data = <<>>
    /\ deciphered = {}

\* mass_download is not running, or is about to issue its first find
Items == 1..NumItems
InitBatch ==
    /\ loop = "find"
    /\ batch = {}
    /\ task = [i \in Items |-> "none"]
    /\ towrite = [i \in Items |-> "none"]
    /\ handler = [i \in Items |-> FALSE]
    /\ audio = [i \in Items |-> FALSE]
    /\ writes = [i \in Items |-> 0]
    /\ failedWrite = [i \in Items |-> FALSE]
    /\ downloads = [i \in Items |-> 0]
    /\ batches = 0
    /\ track_data = [i \in Items |-> "none"]
    /\ caught = [i \in Items |-> "none"]

\* no download() has a local yet
InitLocals ==
    /\ trackId = [p \in Procs |-> None]
    /\ track = [p \in Procs |-> None]
    /\ url = [p \in Procs |-> None]
    /\ issued = 0
    /\ resolved = [p \in Procs |-> None]
    /\ fetched = [p \in Procs |-> None]
    /\ negotiated = <<>>
    /\ keyed = [p \in Procs |-> None]

\* DeezerClient.__init__, and no download() called yet
Init ==
    /\ InitClient
    /\ InitLocals
    /\ master_key = DefaultKey
    /\ InitBatch
    /\ doc_status = [i \in Items |-> "none"]

\* ------------------------------------------------------ backend responses
StatusCodes == {200, 500}

\* A body is a record of the keys the code reads; json = FALSE is a body that
\* response.json() cannot decode.

\* deezer.getUserData: the three fields _setup reads, each present or not
SetupBodies ==
    {b \in [json : BOOLEAN,
            checkForm : {Missing, "", "api1"},
            license_token : {Missing, "lic1"},
            SESSION_ID : {Missing, "sid1"}] :
        b.json \/ (b.checkForm = Missing /\ b.license_token = Missing
                      /\ b.SESSION_ID = Missing)}

\* GET /2.0/track/isrc:<isrc>: an "error" key or not, an "id" key or not
IsrcBodies ==
    {b \in [json : BOOLEAN, error : BOOLEAN, id : {Missing, "42"}] :
        b.json \/ (~b.error /\ b.id = Missing)}

\* song.getData: no "results", "results" without TRACK_TOKEN, or with it
TrackBodies ==
    {b \in [json : BOOLEAN, results : {Missing, "NoToken", "tok-abc"}] :
        b.json \/ b.results = Missing}

\* the "sources" array of a media entry, as the urls of its sources
SourceLists == {<<>>, <<"url1">>, <<"url2", "url1">>}

\* the "media" array of json["data"][0]: no entry, one, or two of which the
\* first has two sources or none
MediaLists ==
    {<<>>} \cup {<<s>> : s \in SourceLists}
           \cup {<<<<"url2", "url1">>, <<"url1">>>>, <<<<>>, <<"url1">>>>}

\* media.deezer.com/v1/get_url: "data" is missing, empty, or has an entry,
\* which has an "errors" key or not and a "media" array or not
UrlBodies ==
    {b \in [json : BOOLEAN, data : {Missing, "Empty", "Entry"},
            errors : BOOLEAN, has_media : BOOLEAN, media : MediaLists] :
        /\ b.json \/ b.data = Missing
        /\ b.data = "Entry" \/ (~b.errors /\ ~b.has_media)
        /\ b.has_media \/ Len(b.media) = 0}

\* a response is a status code and a body
Responses(bodies) == [status : StatusCodes, body : bodies]

\* the responses to a request whose status the code tests before it reads the
\* body: one body stands for all bodies of a rejected response
Checked(bodies) ==
    LET any == CHOOSE b \in bodies : TRUE IN
    [status : {200}, body : bodies]
        \cup [status : StatusCodes \ {200}, body : {any}]

\* ------------------------------------------------- response classification
\* _setup, lines 81-97: no status check; the fields are read and assigned
\* one after the other, _is_setup last
SetupResult(resp) ==
    LET b == resp.body IN
    IF ~b.json THEN
        [err |-> "JSONDecodeError", api_key |-> api_key,
         license_token |-> license_token, headers |-> headers,
         is_setup |-> is_setup]
    ELSE IF b.checkForm = Missing THEN
        [err |-> "KeyError", api_key |-> api_key,
         license_token |-> license_token, headers |-> headers,
         is_setup |-> is_setup]
    ELSE IF b.license_token = Missing THEN
        [err |-> "KeyError", api_key |-> b.checkForm,
         license_token |-> license_token, headers |-> headers,
         is_setup |-> is_setup]
    ELSE IF b.SESSION_ID = Missing THEN
        [err |-> "KeyError", api_key |-> b.checkForm,
         license_token |-> b.license_token, headers |-> headers,
         is_setup |-> is_setup]
    ELSE
        [err |-> "ok", api_key |-> b.checkForm,
         license_token |-> b.license_token, headers |-> b.SESSION_ID,
         is_setup |-> TRUE]

\* mutant of IsrcResult: the body is read before the status is tested
IsrcResultBodyFirst(resp) ==
    IF ~resp.body.json THEN "JSONDecodeError"
    ELSE IF resp.body.error THEN "TrackNotFoundError"
    ELSE IF resp.status # 200 THEN "APIError"
    ELSE IF resp.body.id = Missing THEN "KeyError"
    ELSE "ok"

\* _get_id_from_isrc, lines 111-120
IsrcResult(resp) ==
    IF resp.status # 200 THEN "APIError"
    ELSE IF ~resp.body.json THEN "JSONDecodeError"
    ELSE IF resp.body.error THEN "TrackNotFoundError"
    ELSE IF resp.body.id = Missing THEN "KeyError"
    ELSE "ok"

\* _get_id_from_isrc, line 120: return json["id"]
IsrcValue(resp) == resp.body.id

\* mutant of GetTrack: a body without "results" is returned like any other
GetTrackUnchecked(resp) ==
    IF resp.status # 200 THEN "APIError"
    ELSE IF ~resp.body.json THEN "JSONDecodeError"
    ELSE "ok"

\* _get_track, lines 145-152
GetTrack(resp) ==
    IF resp.status # 200 THEN "APIError"
    ELSE IF ~resp.body.json THEN "JSONDecodeError"
    ELSE IF resp.body.results = Missing THEN "TrackNotFoundError"
    ELSE "ok"

\* download, lines 265-266: _get_track, then track["results"]["TRACK_TOKEN"]
TrackResult(resp) ==
    IF GetTrack(resp) # "ok" THEN GetTrack(resp)
    ELSE IF resp.body.results = "NoToken" THEN "KeyError"
    ELSE "ok"

\* download, line 266: the token passed to _get_url
TrackToken(resp) == resp.body.results

\* mutant of UrlResult: the "errors" key of the entry is not looked at
UrlResultErrorsUnchecked(resp) ==
    IF resp.status # 200 THEN "APIError"
    ELSE IF ~resp.body.json THEN "JSONDecodeError"
    ELSE IF resp.body.data = Missing THEN "KeyError"
    ELSE IF resp.body.data = "Empty" THEN "IndexError"
    ELSE IF ~resp.body.has_media THEN "KeyError"
    ELSE IF Len(resp.body.media) = 0 THEN "URLError"
    ELSE IF Len(resp.body.media[1]) = 0 THEN "IndexError"
    ELSE "ok"

\* _get_url, lines 175-187
UrlResult(resp) ==
    IF resp.status # 200 THEN "APIError"
    ELSE IF ~resp.body.json THEN "JSONDecodeError"
    ELSE IF resp.body.data = Missing THEN "KeyError"
    ELSE IF resp.body.data = "Empty" THEN "IndexError"
    ELSE IF resp.body.errors THEN "URLError"
    ELSE IF ~resp.body.has_media THEN "KeyError"
    ELSE IF Len(resp.body.media) = 0 THEN "URLError"
    ELSE IF Len(resp.body.media[1]) = 0 THEN "IndexError"
    ELSE "ok"

\* _get_url, line 187: types[0]["sources"][0]["url"]
UrlValue(resp) == resp.body.media[1][1]

\* mutant of StreamResult: the status of the media response is not tested
StreamResultUnchecked(status) == "Completed"

\* _decrypt_track, lines 235-246
StreamResult(status) ==
    IF status # 200 THEN "DownloadError" ELSE "Completed"

\* history only: how the handshake ended, for a response and SetupResult of it
HandshakeEnd(resp, r) ==
    IF r.err # "ok" THEN "failed"
    ELSE IF resp.status # 200 THEN "established_non200"
    ELSE "established"

\* ------------------------------------------------------------ the client
\* mutant of SlotFree: the section is entered without regard to the semaphore
SlotAlwaysFree == TRUE

\* download, line 255: the semaphore has a free slot
SlotFree == rate_limit_semaphore > 0

\* mutant of SleepTime: the sleep lasts the time elapsed, not the remainder
SleepElapsed(since) == since

\* download, lines 258-259: asyncio.sleep(0.1 - time_since_last_request)
SleepTime(since) == MinSpacing - since

\* download, line 258: the spacing test
MustSleep(since) == since < MinSpacing

\* mutant of LockAfterSetup: the lock is released on the success path only
LockKeptOnError(err) == IF err = "ok" THEN NoOne ELSE setup_lock

\* _ensure_setup, lines 72-74: "async with self._setup_lock" leaves the lock
\* free on return and on an exception alike
LockAfterSetup(err) == NoOne

\* mutant of EnsureSetup: _is_setup is tested without taking the setup lock
EnsureSetupNoLock(p, s) ==
    /\ step' = [step EXCEPT ![p] = s]
    /\ IF is_setup
       THEN /\ pc' = [pc EXCEPT ![p] = "request"]
            /\ sent' = [sent EXCEPT ![p] = Append(@, s)]
            /\ UNCHANGED setup_lock
       ELSE /\ pc' = [pc EXCEPT ![p] = "setup"]
            /\ sent' = [sent EXCEPT ![p] = Append(@, "setup")]
            /\ setup_lock' = p

\* mutant of EnsureSetup: the operation does not call _ensure_setup
EnsureSetupSkipped(p, s) ==
    /\ step' = [step EXCEPT ![p] = s]
    /\ pc' = [pc EXCEPT ![p] = "request"]
    /\ sent' = [sent EXCEPT ![p] = Append(@, s)]
    /\ UNCHANGED setup_lock

\* mutant of EnsureSetup: the setup lock is kept while the request of the
\* operation is in flight
EnsureSetupKeepsLock(p, s) ==
    /\ step' = [step EXCEPT ![p] = s]
    /\ IF setup_lock \notin {NoOne, p}
       THEN /\ pc' = [pc EXCEPT ![p] = "lock_wait"]
            /\ UNCHANGED <<setup_lock, sent>>
       ELSE IF is_setup
       THEN /\ pc' = [pc EXCEPT ![p] = "request"]
            /\ sent' = [sent EXCEPT ![p] = Append(@, s)]
            /\ setup_lock' = p
       ELSE /\ pc' = [pc EXCEPT ![p] = "setup"]
            /\ sent' = [sent EXCEPT ![p] = Append(@, "setup")]
            /\ setup_lock' = p

\* _ensure_setup (lines 72-74) as the first statement of protocol operation s,
\* up to the coroutine's next suspension: wait for the lock; or take it and
\* start the handshake of _setup (line 82); or take it, find the session set
\* up, release it and issue the request of s.
EnsureSetup(p, s) ==
    /\ step' = [step EXCEPT ![p] = s]
    /\ IF setup_lock # NoOne
       THEN /\ pc' = [pc EXCEPT ![p] = "lock_wait"]
            /\ UNCHANGED <<setup_lock, sent>>
       ELSE IF is_setup
       THEN /\ pc' = [pc EXCEPT ![p] = "request"]
            /\ sent' = [sent EXCEPT ![p] = Append(@, s)]
            /\ UNCHANGED setup_lock
       ELSE /\ pc' = [pc EXCEPT ![p] = "setup"]
            /\ sent' = [sent EXCEPT ![p] = Append(@, "setup")]
            /\ setup_lock' = p

\* download, lines 261-264: the download passes the rate limiter and calls
\* _get_id_from_isrc
PassLimiter(p) ==
    /\ last_request_time' = now
    /\ lastPass' = now
    /\ EnsureSetup(p, "isrc")

\* mutant of Release: the slot is released when the body returns, and kept
\* when it raises
ReleaseOnReturnOnly(p, result) ==
    /\ pc' = [pc EXCEPT ![p] = "done"]
    /\ outcome' = [outcome EXCEPT ![p] = result]
    /\ rate_limit_semaphore' =
          IF result = "Completed" THEN rate_limit_semaphore + 1
          ELSE rate_limit_semaphore
    /\ lastRelease' = now

\* download, line 255 (__aexit__) and 271: the slot is released when the
\* body returns or raises
Release(p, result) ==
    /\ pc' = [pc EXCEPT ![p] = "done"]
    /\ outcome' = [outcome EXCEPT ![p] = result]
    /\ rate_limit_semaphore' = rate_limit_semaphore + 1
    /\ lastRelease' = now

\* download, lines 255-264: take a slot (the call waits while there is none),
\* read the clock, then sleep or pass
Begin(p) ==
    /\ pc[p] = "idle"
    /\ SlotFree
    /\ rate_limit_semaphore' = rate_limit_semaphore - 1
    /\ IF MustSleep(now - last_request_time)
       THEN /\ pc' = [pc EXCEPT ![p] = "sleep"]
            /\ wake' = [wake EXCEPT ![p] = now + SleepTime(now - last_request_time)]
            /\ readTime' = [readTime EXCEPT ![p] = last_request_time]
            /\ UNCHANGED <<step, setup_lock, sent, last_request_time, lastPass>>
       ELSE /\ PassLimiter(p)
            /\ UNCHANGED <<wake, readTime>>
    /\ UNCHANGED <<outcome, is_setup, api_key, license_token, headers, 
                   handshake, lastRelease, burstVars>>

\* download, lines 259-264: asyncio.sleep returns, no sooner than its deadline
Wake(p) ==
    /\ pc[p] = "sleep"
    /\ now >= wake[p]
    /\ PassLimiter(p)
    /\ wake' = [wake EXCEPT ![p] = 0]
    /\ readTime' = [readTime EXCEPT ![p] = -MinSpacing]
    /\ UNCHANGED <<outcome, rate_limit_semaphore, is_setup, api_key,
                   license_token, headers, handshake, lastRelease,
                   burstVars>>

\* _ensure_setup, line 72: a waiter gets the setup lock
LockAcquired(p) ==
    /\ pc[p] = "lock_wait"
    /\ setup_lock = NoOne
    /\ EnsureSetup(p, step[p])
    /\ UNCHANGED <<outcome, rate_limit_semaphore, is_setup, api_key,
                   license_token, headers, last_request_time, wake,
                   handshake, readTime, lastPass, lastRelease, burstVars>>

\* _setup, lines 81-98: the handshake's response arrives; on success the lock
\* is released and the request of the pending operation is issued
SetupResponse(p) ==
    /\ pc[p] = "setup"
    /\ \E resp \in Responses(SetupBodies) :
         LET r == SetupResult(resp) IN
         /\ api_key' = r.api_key
         /\ license_token' = r.license_token
         /\ headers' = r.headers
         /\ is_setup' = r.is_setup
         /\ setup_lock' = LockAfterSetup(r.err)
         /\ handshake' = [handshake EXCEPT ![p] = HandshakeEnd(resp, r)]
         /\ IF r.err = "ok"
            THEN /\ pc' = [pc EXCEPT ![p] = "request"]
                 /\ sent' = [sent EXCEPT ![p] = Append(@, step[p])]
                 /\ UNCHANGED <<outcome, rate_limit_semaphore, lastRelease>>
            ELSE /\ Release(p, r.err)
                 /\ UNCHANGED sent
    /\ UNCHANGED <<step, last_request_time, wake, readTime, lastPass,
                   burstVars>>

\* mutant of Continue: the exception of an operation is recorded and the next
\* operation is called all the same
ContinuePastError(p, err, next) ==
    /\ EnsureSetup(p, next)
    /\ outcome' = [outcome EXCEPT ![p] = IF err = "ok" THEN @ ELSE err]
    /\ UNCHANGED <<rate_limit_semaphore, lastRelease>>
    /\ UNCHANGED <<is_setup, api_key, license_token, headers,
                   last_request_time, wake, handshake, readTime,
                   lastPass, burstVars>>

\* mutant of Continue: an operation that raised is called again
ContinueRetry(p, err, next) ==
    /\ EnsureSetup(p, IF err = "ok" THEN next ELSE step[p])
    /\ UNCHANGED <<outcome, rate_limit_semaphore, lastRelease>>
    /\ UNCHANGED <<is_setup, api_key, license_token, headers,
                   last_request_time, wake, handshake, readTime,
                   lastPass, burstVars>>

\* download, lines 264-267: an operation returned, the next one is called; or
\* it raised, and the exception leaves download
Continue(p, err, next) ==
    /\ IF err = "ok"
       THEN /\ EnsureSetup(p, next)
            /\ UNCHANGED <<outcome, rate_limit_semaphore, lastRelease>>
       ELSE /\ Release(p, err)
            /\ UNCHANGED <<step, setup_lock, sent>>
    /\ UNCHANGED <<is_setup, api_key, license_token, headers,
                   last_request_time, wake, handshake, readTime,
                   lastPass, burstVars>>

\* _get_id_from_isrc, lines 108-120
IsrcResponse(p) ==
    /\ pc[p] = "request" /\ step[p] = "isrc"
    /\ \E resp \in Checked(IsrcBodies) : Continue(p, IsrcResult(resp), "track")

\* _get_track, lines 139-152
TrackResponse(p) ==
    /\ pc[p] = "request" /\ step[p] = "track"
    /\ \E resp \in Checked(TrackBodies) : Continue(p, TrackResult(resp), "url")

\* _get_url, lines 172-187
UrlResponse(p) ==
    /\ pc[p] = "request" /\ step[p] = "url"
    /\ \E resp \in Checked(UrlBodies) : Continue(p, UrlResult(resp), "stream")

\* _decrypt_track, lines 235-246, and download's return, line 271
StreamResponse(p) ==
    /\ pc[p] = "request" /\ step[p] = "stream"
    /\ \E status \in StatusCodes : Release(p, StreamResult(status))
    /\ UNCHANGED <<step, setup_lock, sent, is_setup, api_key, license_token,
                   headers, last_request_time, wake, handshake, readTime,
                   lastPass, burstVars>>

Older(t) == IF t - 1 < -MinSpacing THEN -MinSpacing ELSE t - 1
Sooner(t) == IF t - 1 < 0 THEN 0 ELSE t - 1

\* a tick of the clock: every stored timestamp is one tick older, every
\* deadline one tick nearer
Tick ==
    /\ last_request_time' = Older(last_request_time)
    /\ lastPass' = Older(lastPass)
    /\ lastRelease' = Older(lastRelease)
    /\ readTime' = [p \in Procs |-> Older(readTime[p])]
    /\ wake' = [p \in Procs |-> Sooner(wake[p])]
    /\ UNCHANGED <<pc, step, outcome, rate_limit_semaphore, setup_lock,
                   is_setup, api_key, license_token, headers, sent,
                   handshake, burstVars>>

\* ------------------------------------------------------------ the burst
\* A burst of download() calls on the same client, each reduced to its use of
\* the semaphore: the calls are counted, not told apart.

\* download is called
BurstCall ==
    /\ waiting + inside + finished < MaxBurst
    /\ waiting' = waiting + 1
    /\ UNCHANGED <<pc, step, outcome, rate_limit_semaphore, clientVars,
                   last_request_time, wake, sent, handshake, readTime,
                   lastPass, lastRelease, inside, finished>>

\* download, line 255: "async with self.rate_limit_semaphore" is entered
BurstAcquire ==
    /\ waiting > 0
    /\ SlotFree
    /\ rate_limit_semaphore' = rate_limit_semaphore - 1
    /\ waiting' = waiting - 1
    /\ inside' = inside + 1
    /\ UNCHANGED <<pc, step, outcome, clientVars, last_request_time, wake,
                   sent, handshake, readTime, lastPass, lastRelease,
                   finished>>

\* download, lines 255-271: the body returns or raises and the slot is released
BurstRelease ==
    /\ inside > 0
    /\ rate_limit_semaphore' = rate_limit_semaphore + 1
    /\ inside' = inside - 1
    /\ finished' = finished + 1
    /\ UNCHANGED <<pc, step, outcome, clientVars, last_request_time, wake,
                   sent, handshake, readTime, lastPass, lastRelease,
                   waiting>>

NextBurst ==
    /\ BurstCall \/ BurstAcquire \/ BurstRelease
    /\ UNCHANGED <<callVars, batchVars, flowVars>>

SpecBurst == Init /\ [][NextBurst]_vars

\* ------------------------------------------------------- key derivation
Digits == <<"0", "1", "2", "3", "4", "5", "6", "7", "8", "9">>
Letters ==
    <<"a", "b", "c", "d", "e", "f", "g", "h", "i", "j", "k", "l", "m",
      "n", "o", "p", "q", "r", "s", "t", "u", "v", "w", "x", "y", "z">>

\* ord(c) of a digit or a lower-case letter
Ord(c) ==
    IF \E i \in 1..Len(Digits) : Digits[i] = c
    THEN 47 + (CHOOSE i \in 1..Len(Digits) : Digits[i] = c)
    ELSE 96 + (CHOOSE i \in 1..Len(Letters) : Letters[i] = c)

\* a ^ b on non-negative integers
RECURSIVE Xor(_, _)
Xor(a, b) ==
    IF a = 0 THEN b
    ELSE IF b = 0 THEN a
    ELSE 2 * Xor(a \div 2, b \div 2) + ((a + b) % 2)

\* hashlib.md5(str(track_id)).hexdigest(), tabulated for the track ids of
\* the model
Md5Hex(track_id) ==
    CASE track_id = "7" ->
          <<"8", "f", "1", "4", "e", "4", "5", "f", "c", "e", "e", "a",
            "1", "6", "7", "a", "5", "a", "3", "6", "d", "e", "d", "d",
            "4", "b", "e", "a", "2", "5", "4", "3">>
      [] track_id = "42" ->
          <<"a", "1", "d", "0", "c", "6", "e", "8", "3", "f", "0", "2",
            "7", "3", "2", "7", "d", "8", "4", "6", "1", "0", "6", "3",
            "f", "4", "a", "c", "5", "8", "a", "6">>
      [] track_id = "3135556" ->
          <<"2", "9", "a", "1", "5", "f", "c", "7", "0", "f", "b", "2",
            "7", "8", "0", "0", "9", "a", "b", "6", "9", "8", "8", "c",
            "e", "9", "a", "4", "2", "2", "e", "8">>

\* mutant of BlowfishKey: the secret is read from its end
BlowfishKeyFromEnd(track_id, secret) ==
    LET id_md5 == Md5Hex(track_id) IN
    [i \in 1..KeyLen |->
        Xor(Xor(Ord(id_md5[i]), Ord(id_md5[i + KeyLen])),
            Ord(secret[Len(secret) - KeyLen + i]))]

\* _generate_blowfish_key, lines 196-209, for a secret of KeyLen characters
\* or more: byte i is id_md5[i] ^ id_md5[i + 16] ^ master_key[i]
BlowfishKey(track_id, secret) ==
    LET id_md5 == Md5Hex(track_id) IN
    [i \in 1..KeyLen |->
        Xor(Xor(Ord(id_md5[i]), Ord(id_md5[i + KeyLen])), Ord(secret[i]))]

\* mutant of KeyDerivationFails: a secret of exactly KeyLen characters is
\* refused as well
KeyDerivationNeedsMore(secret) == Len(secret) <= KeyLen

\* _generate_blowfish_key, line 204: master_key[i] of a shorter secret raises
KeyDerivationFails(secret) == Len(secret) < KeyLen

\* ------------------------------------------------- the operations, one by one
\* One caller calls the operations of the client one at a time, with any
\* argument and any answer of the backend; call records the call until the
\* caller has taken its result.

Isrcs == {"isrc1"}
TrackIds == {"7", "42", "3135556"}
TrackTokens == {"tok-abc", "tok-xyz"}

\* the caller is in no operation and has taken the result of the last one
Idle == call.op = "none"

\* what a request carries of the session, and the argument of the operation
Request(token, cookie, license, arg) ==
    [api_token |-> token, cookie |-> cookie, license_token |-> license,
     arg |-> arg]

\* _ensure_setup and _setup, lines 72-97, called by the first operation
CallSetup ==
    /\ Idle
    /\ ~is_setup
    /\ \E resp \in Responses(SetupBodies) :
        LET r == SetupResult(resp) IN
        /\ is_setup' = r.is_setup
        /\ api_key' = r.api_key
        /\ license_token' = r.license_token
        /\ headers' = r.headers
        /\ call' = [op |-> "setup",
                    request |-> Request(None, None, None, None),
                    resp |-> resp, err |-> r.err, value |-> None]
    /\ UNCHANGED <<setup_lock, downloadVars, burstVars, master_key,
                   streamVars>>

\* _get_id_from_isrc, lines 107-120: the request carries nothing of the session
CallIsrc ==
    /\ Idle
    /\ is_setup
    /\ \E isrc \in Isrcs, resp \in Responses(IsrcBodies) :
        call' = [op |-> "isrc",
                 request |-> Request(None, None, None, isrc),
                 resp |-> resp, err |-> IsrcResult(resp),
                 value |-> IF IsrcResult(resp) = "ok" THEN IsrcValue(resp)
                           ELSE None]
    /\ UNCHANGED <<clientVars, downloadVars, burstVars, master_key,
                   streamVars>>

\* _get_track, lines 129-152: api_token is self.api_key and the headers are
\* self.headers; the body is returned, here by its "results"
CallTrack ==
    /\ Idle
    /\ is_setup
    /\ \E id \in TrackIds, resp \in Responses(TrackBodies) :
        call' = [op |-> "track",
                 request |-> Request(api_key, headers, None, id),
                 resp |-> resp, err |-> GetTrack(resp),
                 value |-> IF GetTrack(resp) = "ok" THEN resp.body.results
                           ELSE None]
    /\ UNCHANGED <<clientVars, downloadVars, burstVars, master_key,
                   streamVars>>

\* _get_url, lines 161-187: the body carries self.license_token and the
\* track token
CallUrl ==
    /\ Idle
    /\ is_setup
    /\ \E token \in TrackTokens, resp \in Responses(UrlBodies) :
        call' = [op |-> "url",
                 request |-> Request(None, None, license_token, token),
                 resp |-> resp, err |-> UrlResult(resp),
                 value |-> IF UrlResult(resp) = "ok" THEN UrlValue(resp)
                           ELSE None]
    /\ UNCHANGED <<clientVars, downloadVars, burstVars, master_key,
                   streamVars>>

\* ------------------------------------------------------- the media stream
\* A chunk is its length in bytes and its content.  The content is cut down
\* to two cipher blocks of two bits each, whatever the length.
Blocks == 0..3
ChunkData == {<<1, 2>>, <<3, 0>>}

\* the secrets a client is constructed with
MasterKeys ==
    {DefaultKey, DefaultKey \o <<"x">>, DefaultKey \o <<"y", "z">>,
     [DefaultKey EXCEPT ![KeyLen] = "1"], SubSeq(DefaultKey, 1, KeyLen - 1)}

\* the lengths of a media response: up to MaxFullChunks full chunks and a tail
StreamLengths ==
    {q * ChunkSize + r : q \in 0..MaxFullChunks, r \in {0, 904}}

\* response.aiter_bytes(chunk_size=2048) of a body of n bytes: chunks of
\* ChunkSize bytes, the last one shorter when n is no multiple of it
ChunkLens(n) ==
    [i \in 1..((n + ChunkSize - 1) \div ChunkSize) |->
        IF i * ChunkSize <= n THEN ChunkSize ELSE n % ChunkSize]

\* the bodies of n bytes, in chunks
StreamsOf(n) ==
    {[i \in 1..Len(ChunkLens(n)) |-> [len |-> ChunkLens(n)[i], data |-> f[i]]] :
        f \in [1..Len(ChunkLens(n)) -> ChunkData]}

\* the block cipher under a key: the inverse of a key-dependent permutation
\* of the blocks
RECURSIVE XorAll(_)
XorAll(bytes) ==
    IF Len(bytes) = 0 THEN 0 ELSE Xor(Head(bytes), XorAll(Tail(bytes)))
Shift(key) == 1 + (XorAll(key) % 2)
BlockDecrypt(key, y) == (y + 4 - Shift(key)) % 4

\* mutant of CbcDecrypt: a block is chained to the plaintext before it
RECURSIVE PlainChain(_, _, _)
PlainChain(key, data, prev) ==
    IF Len(data) = 0 THEN <<>>
    ELSE LET x == Xor(BlockDecrypt(key, Head(data)), prev)
         IN  <<x>> \o PlainChain(key, Tail(data), x)
CbcDecryptPlainChain(key, data) == PlainChain(key, data, IV)

\* Blowfish.new(key, MODE_CBC, iv).decrypt(data), lines 219-222: each block
\* is deciphered and xored with the ciphertext block before it, the first
\* with the IV
CbcDecrypt(key, data) ==
    [i \in 1..Len(data) |->
        Xor(BlockDecrypt(key, data[i]), IF i = 1 THEN IV ELSE data[i - 1])]

\* decrypt of a length that is no multiple of the block size raises
CipherFails(chunk) == chunk.len % BlockSize # 0

\* mutant of DecryptChunk: one cipher object for the whole stream, so that a
\* chunk is chained to the last block of the chunk read before it
DecryptChunkChained(chunk, key) ==
    [len |-> chunk.len,
     data |-> [i \in 1..Len(chunk.data) |->
                 Xor(BlockDecrypt(key, chunk.data[i]),
                     IF i > 1 THEN chunk.data[i - 1]
                     ELSE IF iterations = 0 THEN IV
                     ELSE stream[iterations].data[Len(stream[iterations].data)])]]

\* _decrypt_chunk, lines 219-222: a new cipher object for every chunk
DecryptChunk(chunk, key) ==
    [len |-> chunk.len, data |-> CbcDecrypt(key, chunk.data)]

\* mutant of Selected: every full chunk is deciphered
SelectedEveryChunk(i, chunk) == chunk.len = ChunkSize

\* mutant of Selected: every third chunk is deciphered, whatever its length
SelectedAnyLength(i, chunk) == i % Stride = 0

\* _decrypt_track, line 242: the chunks that are deciphered
Selected(i, chunk) == i % Stride = 0 /\ chunk.len = ChunkSize

\* mutant of Write: a chunk shorter than a full one is not written
WriteFullOnly(buffer, chunk) ==
    IF chunk.len = ChunkSize THEN Append(buffer, chunk) ELSE buffer

\* _decrypt_track, line 244: decrypted_data.write(data)
Write(buffer, chunk) == Append(buffer, chunk)

\* _decrypt_track, lines 232-240: the key is derived, the media request is
\* issued and its status tested; no chunk is read yet
CallStream ==
    /\ Idle
    /\ is_setup
    /\ \E id \in TrackIds, status \in StatusCodes, n \in StreamLengths :
        \E body \in StreamsOf(n) :
            IF KeyDerivationFails(master_key)
            THEN /\ call' = [op |-> "stream",
                             request |-> Request(None, None, None, id),
                             resp |-> [status |-> 0, length |-> 0],
                             err |-> "IndexError", value |-> None]
                 /\ stream' = <<>>
                 /\ blowfish_key' = <<>>
            ELSE /\ call' = [op |-> "stream",
                             request |-> Request(None, None, None, id),
                             resp |-> [status |-> status, length |-> n],
                             err |-> IF StreamResult(status) = "Completed"
                                     THEN "reading"
                                     ELSE StreamResult(status),
                             value |-> None]
                 /\ stream' = body
                 /\ blowfish_key' = BlowfishKey(id, master_key)
    /\ iterations' = 0
    /\ decrypted_data' = <<>>
    /\ deciphered' = {}
    /\ UNCHANGED <<clientVars, downloadVars, burstVars, master_key>>

\* _decrypt_track, lines 241-245: one turn of the loop
ReadChunk ==
    /\ call.err = "reading"
    /\ iterations < Len(stream)
    /\ LET data == stream[iterations + 1] IN
       IF Selected(iterations, data) /\ CipherFails(data)
       THEN /\ call' = [call EXCEPT !.err = "ValueError"]
            /\ UNCHANGED <<iterations, decrypted_data, deciphered>>
       ELSE /\ decrypted_data' =
                  Write(decrypted_data,
                        IF Selected(iterations, data)
                        THEN DecryptChunk(data, blowfish_key) ELSE data)
            /\ deciphered' =
                  IF Selected(iterations, data)
                  THEN deciphered \cup {iterations} ELSE deciphered
            /\ iterations' = iterations + 1
            /\ UNCHANGED call
    /\ UNCHANGED <<clientVars, downloadVars, burstVars, master_key, stream,
                   blowfish_key>>

\* _decrypt_track, line 246: the stream is exhausted and the buffer returned
StreamEnd ==
    /\ call.err = "reading"
    /\ iterations = Len(stream)
    /\ call' = [call EXCEPT !.err = "Completed", !.value = "decrypted_data"]
    /\ UNCHANGED <<clientVars, downloadVars, burstVars, master_key,
                   streamVars>>

\* the caller takes the value or the exception of the operation
Return ==
    /\ call.op # "none"
    /\ call.err # "reading"
    /\ call' = NoCall
    /\ stream' = <<>>
    /\ blowfish_key' = <<>>
    /\ iterations' = 0
    /\ decrypted_data' = <<>>
    /\ deciphered' = {}
    /\ UNCHANGED <<clientVars, downloadVars, burstVars, master_key>>

\* a client constructed with any of the secrets
InitCalls ==
    /\ InitClient
    /\ InitLocals
    /\ master_key \in MasterKeys
    /\ InitBatch
    /\ doc_status = [i \in Items |-> "none"]

NextCalls ==
    /\ \/ CallSetup
       \/ CallIsrc
       \/ CallTrack
       \/ CallUrl
       \/ CallStream
       \/ ReadChunk
       \/ StreamEnd
       \/ Return
    /\ UNCHANGED <<batchVars, flowVars>>

SpecCalls == InitCalls /\ [][NextCalls]_vars

\* ------------------------------------------- the values a download carries
\* download, lines 263-271: track_id, track and url are locals of the call.
\* The session is established before the first call, so that _ensure_setup
\* returns at once and the request of an operation is issued in the step in
\* which the response of the operation before it arrives.  The time since
\* the last request is an input here, and the backend answers song.getData
\* with a token it has not issued before.

\* mutant of TokenSent: the token of a track is kept by the client, and the
\* first one sent for a track is sent again
TokenSentCached(token, earlier) ==
    LET same == {k \in 1..Len(earlier) : earlier[k][2][1] = token[1]} IN
    IF same = {} THEN token
    ELSE earlier[CHOOSE k \in same : \A l \in same : k <= l][2]

\* download, line 266: the token sent is track["results"]["TRACK_TOKEN"] of
\* the local track, whatever was sent earlier
TokenSent(token, earlier) == token

\* what the flow leaves alone: the session, the clock and the histories of
\* the rate limiter
flowRest == <<clientVars, last_request_time, wake, handshake, readTime,
              lastPass, burstVars, callVars, batchVars>>

\* download, lines 255-264: take a slot, then sleep or issue the ISRC lookup
FlowBegin(p) ==
    /\ pc[p] = "idle"
    /\ SlotFree
    /\ rate_limit_semaphore' = rate_limit_semaphore - 1
    /\ \E since \in {0, MinSpacing} :
        IF MustSleep(since)
        THEN /\ pc' = [pc EXCEPT ![p] = "sleep"]
             /\ UNCHANGED <<step, sent>>
        ELSE /\ pc' = [pc EXCEPT ![p] = "request"]
             /\ step' = [step EXCEPT ![p] = "isrc"]
             /\ sent' = [sent EXCEPT ![p] = Append(@, "isrc")]
    /\ UNCHANGED <<outcome, lastRelease, flowVars, flowRest>>

\* download, lines 259-264: the sleep is over, the ISRC lookup is issued
FlowWake(p) ==
    /\ pc[p] = "sleep"
    /\ pc' = [pc EXCEPT ![p] = "request"]
    /\ step' = [step EXCEPT ![p] = "isrc"]
    /\ sent' = [sent EXCEPT ![p] = Append(@, "isrc")]
    /\ UNCHANGED <<outcome, rate_limit_semaphore, lastRelease, flowVars,
                   flowRest>>

\* download, lines 264-265: the lookup answers with the id of a track, which
\* becomes track_id and goes into the song.getData request; or it raises
FlowIsrc(p) ==
    /\ pc[p] = "request" /\ step[p] = "isrc"
    /\ \/ \E id \in TrackIds :
            /\ trackId' = [trackId EXCEPT ![p] = id]
            /\ resolved' = [resolved EXCEPT ![p] = id]
            /\ step' = [step EXCEPT ![p] = "track"]
            /\ sent' = [sent EXCEPT ![p] = Append(@, "track")]
            /\ UNCHANGED <<pc, outcome, rate_limit_semaphore, lastRelease>>
       \/ /\ Release(p, "TrackNotFoundError")
          /\ UNCHANGED <<trackId, resolved, step, sent>>
    /\ UNCHANGED <<track, url, issued, fetched, negotiated, keyed, flowRest>>

\* download, lines 265-266: song.getData answers with a token for the track
\* asked for, which becomes track and is sent to get_url; or it raises
FlowTrack(p) ==
    /\ pc[p] = "request" /\ step[p] = "track"
    /\ \/ LET token == <<trackId[p], issued + 1>> IN
            /\ issued' = issued + 1
            /\ track' = [track EXCEPT ![p] = token]
            /\ fetched' = [fetched EXCEPT ![p] = token]
            /\ negotiated' =
                  Append(negotiated, <<p, TokenSent(token, negotiated)>>)
            /\ step' = [step EXCEPT ![p] = "url"]
            /\ sent' = [sent EXCEPT ![p] = Append(@, "url")]
            /\ UNCHANGED <<pc, outcome, rate_limit_semaphore, lastRelease>>
       \/ /\ Release(p, "APIError")
          /\ UNCHANGED <<issued, track, fetched, negotiated, step, sent>>
    /\ UNCHANGED <<trackId, url, resolved, keyed, flowRest>>

\* download, lines 266-267, and _decrypt_track, lines 232-234: get_url
\* answers with the url of the token it was sent, the key is derived from
\* track_id and the media request is issued; or get_url raises
FlowUrl(p) ==
    /\ pc[p] = "request" /\ step[p] = "url"
    /\ \/ \E k \in 1..Len(negotiated) :
            /\ negotiated[k][1] = p
            /\ url' = [url EXCEPT ![p] = <<"url", negotiated[k][2]>>]
            /\ keyed' = [keyed EXCEPT ![p] = trackId[p]]
            /\ step' = [step EXCEPT ![p] = "stream"]
            /\ sent' = [sent EXCEPT ![p] = Append(@, "stream")]
            /\ UNCHANGED <<pc, outcome, rate_limit_semaphore, lastRelease>>
       \/ /\ Release(p, "URLError")
          /\ UNCHANGED <<url, keyed, step, sent>>
    /\ UNCHANGED <<trackId, track, issued, resolved, fetched, negotiated,
                   flowRest>>

\* download, lines 267-271: the media response is read and the slot released
FlowStream(p) ==
    /\ pc[p] = "request" /\ step[p] = "stream"
    /\ \E result \in {"Completed", "DownloadError"} : Release(p, result)
    /\ UNCHANGED <<step, sent, flowVars, flowRest>>

\* a client whose session an earlier call has established
InitFlow ==
    /\ pc = [p \in Procs |-> "idle"]
    /\ step = [p \in Procs |-> "none"]
    /\ outcome = [p \in Procs |-> "none"]
    /\ rate_limit_semaphore = RateLimit
    /\ setup_lock = NoOne
    /\ is_setup = TRUE
    /\ api_key = "api1"
    /\ license_token = "lic1"
    /\ headers = "sid1"
    /\ last_request_time = now
    /\ wake = [p \in Procs |-> 0]
    /\ sent = [p \in Procs |-> <<>>]
    /\ handshake = [p \in Procs |-> "none"]
    /\ readTime = [p \in Procs |-> -MinSpacing]
    /\ lastPass = -MinSpacing
    /\ lastRelease = -MinSpacing
    /\ waiting = 0
    /\ inside = 0
    /\ finished = 0
    /\ call = NoCall
    /\ stream = <<>>
    /\ blowfish_key = <<>>
    /\ iterations = 0
    /\ decrypted_data = <<>>
    /\ deciphered = {}
    /\ master_key = DefaultKey
    /\ InitLocals
    /\ InitBatch
    /\ doc_status = [i \in Items |-> "none"]

NextFlow ==
    \E p \in Procs :
        \/ FlowBegin(p)
        \/ FlowWake(p)
        \/ FlowIsrc(p)
        \/ FlowTrack(p)
        \/ FlowUrl(p)
        \/ FlowStream(p)

SpecFlow == InitFlow /\ [][NextFlow]_vars

\* ------------------------------------------------------------ the batch job
\* download.py: mass_download finds a batch of documents, process_batch
\* gathers one download_and_update task for each, and every task records the
\* status of its document.  One action is one run of the loop or of a task
\* between two awaits.

\* what a document's status can be before the run
StoredStatuses == {"none", "pending", "completed"}

\* what client.download returns or raises: a payload, empty or not, or one
\* of the exceptions of the client
DownloadResults ==
    {"payload", "empty", "TrackNotFoundError", "URLError", "DownloadError",
     "APIError"}

\* mass_download, lines 50-52: the filter of find, with "none" for a document
\* that has no status field
Pending(s) == s \in {"none", "pending"}

\* mutant of HandlerStatus: a URL error is recorded as a download error
HandlerStatusMerged(exc) ==
    CASE exc = "TrackNotFoundError" -> "not_found"
      [] exc = "URLError" -> "download_error"
      [] exc = "DownloadError" -> "download_error"
      [] OTHER -> "unexpected_error"

\* download_and_update, lines 116-135: the status of each except clause
HandlerStatus(exc) ==
    CASE exc = "TrackNotFoundError" -> "not_found"
      [] exc = "URLError" -> "url_error"
      [] exc = "DownloadError" -> "download_error"
      [] OTHER -> "unexpected_error"

\* mutant of Catches: there is no "except Exception" clause
CatchesNamedOnly(exc) ==
    exc \in {"TrackNotFoundError", "URLError", "DownloadError"}

\* download_and_update, lines 116-131: the exceptions an except clause of
\* the try statement takes
Catches(exc) == TRUE

Min(a, b) == IF a <= b THEN a ELSE b

\* mass_download, lines 50-63: find at most batch_size pending documents;
\* stop when there is none, else start a task for each
Find ==
    /\ loop = "find"
    /\ LET pending == {i \in Items : Pending(doc_status[i])} IN
       IF pending = {}
       THEN /\ loop' = "ended"
            /\ UNCHANGED <<batch, task, towrite, handler, downloads, batches,
                           track_data, caught>>
       ELSE \E b \in SUBSET pending :
            /\ Cardinality(b) = Min(BatchSize, Cardinality(pending))
            /\ loop' = "gather"
            /\ batch' = b
            /\ task' = [i \in Items |-> IF i \in b THEN "download" ELSE "none"]
            /\ towrite' = [i \in Items |-> "none"]
            /\ handler' = [i \in Items |-> FALSE]
            /\ track_data' = [i \in Items |-> "none"]
            /\ caught' = [i \in Items |-> "none"]
            /\ downloads' =
                  [i \in Items |-> IF i \in b THEN downloads[i] + 1
                                   ELSE downloads[i]]
            /\ batches' = batches + 1
    /\ UNCHANGED <<doc_status, audio, writes, failedWrite>>
    /\ UNCHANGED <<clientVars, downloadVars, burstVars, callVars>>

\* download_and_update: exception exc is raised inside the try statement, or
\* inside one of its except clauses
Raised(i, exc) ==
    IF ~handler[i] /\ Catches(exc)
    THEN /\ task' = [task EXCEPT ![i] = "update"]
         /\ towrite' = [towrite EXCEPT ![i] = HandlerStatus(exc)]
         /\ handler' = [handler EXCEPT ![i] = TRUE]
         /\ caught' = [caught EXCEPT ![i] = exc]
    ELSE /\ task' = [task EXCEPT ![i] = "raised"]
         /\ UNCHANGED <<towrite, handler, caught>>

\* download_and_update, lines 86-97 and 113-115: download_track ends; a
\* payload that is not empty is written to audio.mp3, which may fail
DownloadEnds(i) ==
    /\ loop = "gather"
    /\ task[i] = "download"
    /\ \E result \in DownloadResults, written \in BOOLEAN :
        /\ track_data' = [track_data EXCEPT ![i] = result]
        /\ IF result = "payload" /\ written
           THEN /\ audio' = [audio EXCEPT ![i] = TRUE]
                /\ task' = [task EXCEPT ![i] = "find_one"]
                /\ UNCHANGED <<towrite, handler, caught>>
           ELSE IF result = "payload"
           THEN Raised(i, "OSError") /\ UNCHANGED audio
           ELSE IF result = "empty"
           THEN /\ task' = [task EXCEPT ![i] = "update"]
                /\ towrite' = [towrite EXCEPT ![i] = "failed"]
                /\ UNCHANGED <<handler, audio, caught>>
           ELSE Raised(i, result) /\ UNCHANGED audio
    /\ UNCHANGED <<doc_status, loop, batch, writes, failedWrite, downloads,
                   batches>>
    /\ UNCHANGED <<clientVars, downloadVars, burstVars, callVars>>

\* download_and_update, lines 97-112: find_one ends and lyrics.json is
\* written, or one of the two raises
FindOneEnds(i) ==
    /\ loop = "gather"
    /\ task[i] = "find_one"
    /\ \E saved \in BOOLEAN :
        IF saved
        THEN /\ task' = [task EXCEPT ![i] = "update"]
             /\ towrite' = [towrite EXCEPT ![i] = "completed"]
             /\ UNCHANGED <<handler, caught>>
        ELSE Raised(i, "AttributeError")
    /\ UNCHANGED <<doc_status, loop, batch, audio, writes, failedWrite,
                   downloads, batches, track_data>>
    /\ UNCHANGED <<clientVars, downloadVars, burstVars, callVars>>

\* download_and_update, lines 110-135: an update_one ends; the task returns
\* after it, or the update has raised
UpdateEnds(i) ==
    /\ loop = "gather"
    /\ task[i] = "update"
    /\ \E stored \in BOOLEAN :
        IF stored
        THEN /\ doc_status' = [doc_status EXCEPT ![i] = towrite[i]]
             /\ writes' = [writes EXCEPT ![i] = @ + 1]
             /\ task' = [task EXCEPT ![i] = "returned"]
             /\ UNCHANGED <<towrite, handler, failedWrite, caught>>
        ELSE /\ failedWrite' = [failedWrite EXCEPT ![i] = TRUE]
             /\ Raised(i, "PyMongoError")
             /\ UNCHANGED <<doc_status, writes>>
    /\ UNCHANGED <<loop, batch, audio, downloads, batches, track_data>>
    /\ UNCHANGED <<clientVars, downloadVars, burstVars, callVars>>

\* process_batch, line 76: every task of the batch has returned
GatherEnds ==
    /\ loop = "gather"
    /\ \A i \in batch : task[i] = "returned"
    /\ loop' = "find"
    /\ UNCHANGED <<doc_status, batch, task, towrite, handler, audio, writes,
                   failedWrite, downloads, batches, track_data, caught>>
    /\ UNCHANGED <<clientVars, downloadVars, burstVars, callVars>>

\* process_batch, line 76: a task has raised, gather raises at once and
\* mass_download with it; the other tasks are cancelled with the event loop
GatherRaises ==
    /\ loop = "gather"
    /\ \E i \in batch : task[i] = "raised"
    /\ loop' = "crashed"
    /\ UNCHANGED <<doc_status, batch, task, towrite, handler, audio, writes,
                   failedWrite, downloads, batches, track_data, caught>>
    /\ UNCHANGED <<clientVars, downloadVars, burstVars, callVars>>

\* a collection with any statuses, and mass_download called
InitMassDownload ==
    /\ InitClient
    /\ InitLocals
    /\ master_key = DefaultKey
    /\ InitBatch
    /\ doc_status \in [Items -> StoredStatuses]

NextBatch ==
    /\ \/ Find
       \/ GatherEnds
       \/ GatherRaises
       \/ \E i \in Items :
           \/ DownloadEnds(i)
           \/ FindOneEnds(i)
           \/ UpdateEnds(i)
    /\ UNCHANGED flowVars

SpecBatch == InitMassDownload /\ [][NextBatch]_vars

Next ==
    /\ \/ \E p \in Procs :
            \/ Begin(p)
            \/ Wake(p)
            \/ LockAcquired(p)
            \/ SetupResponse(p)
            \/ IsrcResponse(p)
            \/ TrackResponse(p)
            \/ UrlResponse(p)
            \/ StreamResponse(p)
       \/ Tick
    /\ UNCHANGED <<callVars, batchVars, flowVars>>

Spec == Init /\ [][Next]_vars

\* ------------------------------------------------ downloads under fairness
\* The event loop runs every coroutine that can run, the clock advances and
\* every request is answered: weak fairness of every step.  A behaviour is
\* one of the downloads of Procs, in detail, or one of a burst of counted
\* calls, which is where a call finds all the slots taken.
others == <<callVars, batchVars, flowVars>>

\* no call of the burst has been made
NoBurst == waiting + inside + finished = 0

\* no download of Procs has been called
NoneCalled == \A p \in Procs : pc[p] = "idle"

NextLive ==
    \/ NoBurst /\ Next
    \/ NoneCalled /\ NextBurst

Fairness ==
    /\ \A p \in Procs :
          /\ WF_vars(NoBurst /\ Begin(p) /\ UNCHANGED others)
          /\ WF_vars(NoBurst /\ Wake(p) /\ UNCHANGED others)
          /\ WF_vars(NoBurst /\ LockAcquired(p) /\ UNCHANGED others)
          /\ WF_vars(NoBurst /\ SetupResponse(p) /\ UNCHANGED others)
          /\ WF_vars(NoBurst /\ IsrcResponse(p) /\ UNCHANGED others)
          /\ WF_vars(NoBurst /\ TrackResponse(p) /\ UNCHANGED others)
          /\ WF_vars(NoBurst /\ UrlResponse(p) /\ UNCHANGED others)
          /\ WF_vars(NoBurst /\ StreamResponse(p) /\ UNCHANGED others)
    /\ WF_vars(NoBurst /\ Tick /\ UNCHANGED others)
    /\ WF_vars(NoneCalled /\ BurstCall /\ UNCHANGED others)
    /\ WF_vars(NoneCalled /\ BurstAcquire /\ UNCHANGED others)
    /\ WF_vars(NoneCalled /\ BurstRelease /\ UNCHANGED others)

SpecLive == Init /\ [][NextLive]_vars /\ Fairness

\* ================================================================ claims
NamedOutcomes ==
    {"Completed", "SessionError", "APIError", "TrackNotFoundError",
     "URLError", "DownloadError"}

\* a download passes the rate limiter in this step: it sets
\* last_request_time and begins its protocol calls
Passes(p) == pc[p] \in {"idle", "sleep"} /\ pc'[p] \notin {"idle", "sleep"}

\* the protocol requests download p has issued, in order
ProtocolRequests(p) == SelectSeq(sent[p], LAMBDA e : e # "setup")
IsPrefix(s, t) == Len(s) <= Len(t) /\ \A i \in 1..Len(s) : s[i] = t[i]
HandshakesInFlight == {p \in Procs : pc[p] = "setup"}

\* C1: every download() call ends by returning the payload or by failing with
\* SessionError, APIError, TrackNotFoundError, URLError or DownloadError, and
\* with no other kind of failure, whatever the backend answers.
C1_OnlyNamedOutcomes ==
    \A p \in Procs : pc[p] = "done" => outcome[p] \in NamedOutcomes

\* C2: at most one handshake of _setup is in flight at any time, and once a
\* handshake has succeeded none is issued again; a caller that finds the
\* setup lock taken waits for it.
C2_OneHandshake ==
    /\ [](Cardinality(HandshakesInFlight) <= 1)
    /\ [](is_setup => HandshakesInFlight = {})
    /\ [][is_setup => \A p \in Procs : pc'[p] = "setup" => pc[p] = "setup"]_vars

\* C2 witness: a handshake is in flight while another first caller waits
C2_Witness ==
    \E p, q \in Procs : pc[p] = "setup" /\ pc[q] = "lock_wait"

\* C3: a protocol request (ISRC lookup, metadata, URL negotiation, media
\* stream) is in flight or has been issued only if the session is set up.
C3_SetupBeforeRequests ==
    \A p \in Procs :
        (pc[p] = "request" \/ Len(ProtocolRequests(p)) > 0) => is_setup

\* C3 witness: a download that performed no handshake of its own has its ISRC
\* lookup in flight, the session having been set up by another caller
C3_Witness ==
    \E p, q \in Procs :
        /\ pc[p] = "request"
        /\ sent[p] = <<"isrc">>
        /\ handshake[p] = "none"
        /\ handshake[q] \in {"established", "established_non200"}

\* C4: a handshake that comes back non-200, or without one of the expected
\* fields, makes the download fail with SessionError.
C4_BadHandshakeIsSessionError ==
    \A p \in Procs :
        handshake[p] \in {"failed", "established_non200"} =>
            pc[p] = "done" /\ outcome[p] = "SessionError"

\* C5: a failed setup attempt (one in which _setup raised) leaves _is_setup
\* false and the setup lock free;
\* the lock is held only while a handshake is in flight; and a caller that
\* then enters a protocol operation with the session unestablished and the
\* lock free performs a handshake of its own.
C5_FailedSetupIsRetried ==
    /\ [][\A p \in Procs :
            (pc[p] = "setup" /\ pc'[p] = "done") =>
                (~is_setup' /\ setup_lock' = NoOne)]_vars
    /\ [](setup_lock # NoOne => pc[setup_lock] = "setup")
    /\ [][\A q \in Procs :
            (/\ pc[q] \in {"idle", "sleep", "lock_wait"}
             /\ pc'[q] \in {"lock_wait", "setup", "request"}
             /\ pc'[q] # pc[q]
             /\ ~is_setup /\ setup_lock = NoOne) => pc'[q] = "setup"]_vars

\* C5 witness: after one download's handshake failed, another download's
\* handshake is in flight
C5_Witness ==
    \E p, q \in Procs :
        /\ handshake[p] = "failed" /\ pc[p] = "done"
        /\ pc[q] = "setup" /\ ~is_setup

\* C6: whenever the session is established, api_key, license_token and the
\* session cookie are all set and non-empty, and none is assigned again.
C6_EstablishedTokensNonEmpty ==
    /\ [](is_setup =>
            /\ api_key \notin {None, ""}
            /\ license_token \notin {None, ""}
            /\ headers \notin {None, ""})
    /\ [][is_setup =>
            UNCHANGED <<api_key, license_token, headers>>]_vars

\* C7: under a burst of more than 30 download() calls, no more than 30 are
\* between acquiring and releasing rate_limit_semaphore.
C7_AtMostRateLimitInside ==
    inside <= RateLimit /\ inside + rate_limit_semaphore = RateLimit

\* C7 witness: all 30 slots are taken and further calls wait
C7_Witness ==
    inside = RateLimit /\ waiting > 0

\* C8: any two downloads pass the rate limiter at least MinSpacing apart.
C8_MinSpacingBetweenPasses ==
    [][\A p \in Procs : Passes(p) => now - lastPass >= MinSpacing]_vars

\* C9, as stated: a download passes the rate limiter no sooner than
\* MinSpacing after the previous download released its slot.
C9_SpacingFromRelease ==
    [][\A p \in Procs : Passes(p) => now - lastRelease >= MinSpacing]_vars

\* the last_request_time download p computed its wait from
ReadTimestamp(p) == IF pc[p] = "sleep" THEN readTime[p] ELSE last_request_time

\* C9, amended: a download passes the rate limiter no sooner than MinSpacing
\* after the last_request_time it read on taking its slot, which is when the
\* previous request's section began (or the client was constructed), not when
\* that request released its slot.
C9_SpacingFromReadTimestamp ==
    [][\A p \in Procs :
        Passes(p) => now - ReadTimestamp(p) >= MinSpacing]_vars

\* C9 witness: a download has just passed the limiter, one tick after a slot
\* was released
C9_Witness ==
    /\ lastPass = now
    /\ lastRelease = now - 1
    /\ \E p \in Procs : pc[p] \in {"setup", "request", "lock_wait"}

RequestOrder == <<"isrc", "track", "url", "stream">>

\* C10: a download issues its requests in the order handshake, ISRC lookup,
\* metadata, URL negotiation, media stream, each at most once, and is
\* Completed only when all four protocol requests have been issued and
\* answered.
C10_FixedOrderNoRetry ==
    \A p \in Procs :
        /\ IsPrefix(ProtocolRequests(p), RequestOrder)
        /\ \A i \in 1..Len(sent[p]) : sent[p][i] = "setup" => i = 1
        /\ outcome[p] = "Completed" =>
              ProtocolRequests(p) = RequestOrder /\ pc[p] = "done"
        /\ pc[p] = "request" =>
              /\ Len(ProtocolRequests(p)) > 0
              /\ step[p] = RequestOrder[Len(ProtocolRequests(p))]

\* C10 witness: a download that performed the handshake itself is Completed
C10_Witness ==
    \E p \in Procs :
        /\ outcome[p] = "Completed"
        /\ sent[p] = <<"setup", "isrc", "track", "url", "stream">>

\* the requests a download has issued when it is in, or failed in, operation s
SentUpTo(s) ==
    CASE s = "isrc" -> <<"isrc">>
      [] s = "track" -> <<"isrc", "track">>
      [] s = "url" -> <<"isrc", "track", "url">>
      [] s = "stream" -> <<"isrc", "track", "url", "stream">>
      [] OTHER -> <<>>

\* C11: a download that fails stops at the step that failed: it has issued no
\* request after it (after a TrackNotFoundError of the ISRC lookup no metadata
\* fetch and no URL negotiation, after a URLError no media stream request),
\* it issues none later, and it ends with the error alone, the payload being
\* returned only by a download that is Completed.
C11_StopsAtFirstFailure ==
    /\ [](\A p \in Procs :
            /\ outcome[p] # "none" => pc[p] = "done"
            /\ (pc[p] = "done" /\ outcome[p] # "Completed") =>
                  /\ ProtocolRequests(p) =
                        IF handshake[p] = "failed" THEN <<>>
                        ELSE SentUpTo(step[p])
                  /\ outcome[p] = "URLError" => step[p] = "url"
                  /\ outcome[p] = "TrackNotFoundError" =>
                        step[p] \in {"isrc", "track"})
    /\ [][\A p \in Procs :
            pc[p] = "done" =>
                /\ pc'[p] = "done"
                /\ sent'[p] = sent[p]
                /\ outcome'[p] = outcome[p]]_vars

\* C11 witness: the ISRC lookup ended in TrackNotFoundError and the ISRC
\* lookup is all the download has requested
C11_Witness ==
    \E p \in Procs :
        /\ outcome[p] = "TrackNotFoundError"
        /\ ProtocolRequests(p) = <<"isrc">>

\* C12: resolving an ISRC, a status other than 200 is an APIError whatever
\* the body holds; a 200 whose JSON body has an "error" key is a
\* TrackNotFoundError; and a 200 whose JSON body has no "error" key returns
\* the body's "id".
C12_ResolveIdClassification ==
    call.op = "isrc" =>
        LET r == call.resp IN
        /\ r.status # 200 => call.err = "APIError"
        /\ (r.status = 200 /\ r.body.json /\ r.body.error) =>
              call.err = "TrackNotFoundError"
        /\ (r.status = 200 /\ r.body.json /\ ~r.body.error
                /\ r.body.id # Missing) =>
              (call.err = "ok" /\ call.value = r.body.id)
        /\ call.err = "ok" => call.value # None

\* C12 witness: a rejected lookup whose body has an "error" key is an APIError
C12_Witness ==
    /\ call.op = "isrc"
    /\ call.resp.status # 200
    /\ call.resp.body.error
    /\ call.err = "APIError"

\* C13: fetching the metadata, a status other than 200 is an APIError, a 200
\* whose JSON body has no "results" is a TrackNotFoundError and a 200 whose
\* body has "results" succeeds; the request is sent on an established session
\* and carries its api_token and its session cookie.
C13_FetchMetadataClassification ==
    call.op = "track" =>
        LET r == call.resp IN
        /\ r.status # 200 => call.err = "APIError"
        /\ (r.status = 200 /\ r.body.json /\ r.body.results = Missing) =>
              call.err = "TrackNotFoundError"
        /\ (r.status = 200 /\ r.body.json /\ r.body.results # Missing) =>
              call.err = "ok"
        /\ is_setup
        /\ call.request.api_token = api_key
        /\ call.request.cookie = headers
        /\ call.request.cookie # None

\* C13 witness: a metadata fetch has succeeded with the session's tokens
C13_Witness ==
    /\ call.op = "track"
    /\ call.err = "ok"
    /\ call.request.api_token = "api1"
    /\ call.request.cookie = "sid1"

\* C14: negotiating the URL, a status other than 200 is an APIError; a 200
\* whose entry for the track has "errors" is a URLError; a 200 whose "media"
\* array is empty is a URLError; and the call succeeds only when "media" has
\* an entry with a non-empty "sources" array, and then returns the url of the
\* first source of the first media entry.
C14_NegotiateUrlClassification ==
    call.op = "url" =>
        LET r == call.resp IN
        /\ r.status # 200 => call.err = "APIError"
        /\ (r.status = 200 /\ r.body.json /\ r.body.data = "Entry"
                /\ r.body.errors) =>
              call.err = "URLError"
        /\ (r.status = 200 /\ r.body.json /\ r.body.data = "Entry"
                /\ r.body.has_media /\ Len(r.body.media) = 0) =>
              call.err = "URLError"
        /\ call.err = "ok" =>
              /\ \E i \in 1..Len(r.body.media) : Len(r.body.media[i]) > 0
              /\ call.value = r.body.media[1][1]

\* C14 witness: of two media entries with two and one source, the first
\* source of the first entry is returned
C14_Witness ==
    /\ call.op = "url"
    /\ call.err = "ok"
    /\ call.resp.body.media = <<<<"url2", "url1">>, <<"url1">>>>
    /\ call.value = "url2"

\* the bytes of a sequence of chunks
RECURSIVE TotalLen(_)
TotalLen(chunks) ==
    IF Len(chunks) = 0 THEN 0 ELSE Head(chunks).len + TotalLen(Tail(chunks))

\* the media request of the stream operation was issued and answered
Answered == call.op = "stream" /\ call.err # "IndexError"

\* C15: a media response whose status is not 200 is a DownloadError, raised
\* before any chunk is read, written or deciphered; and no operation raises
\* DownloadError for any other cause.
C15_DownloadErrorOnlyOnBadStatus ==
    /\ (Answered /\ call.resp.status # 200) =>
          /\ call.err = "DownloadError"
          /\ iterations = 0
          /\ Len(decrypted_data) = 0
          /\ deciphered = {}
    /\ call.err = "DownloadError" =>
          (call.op = "stream" /\ call.resp.status # 200)

\* C15 witness: a rejected media response with a body of chunks, none read
C15_Witness ==
    /\ call.op = "stream"
    /\ call.err = "DownloadError"
    /\ Len(stream) > 0
    /\ iterations = 0

\* CBC encryption under the key, the inverse of CbcDecrypt
BlockEncrypt(key, x) == (x + Shift(key)) % 4
RECURSIVE CbcEncryptFrom(_, _, _)
CbcEncryptFrom(key, data, prev) ==
    IF Len(data) = 0 THEN <<>>
    ELSE LET y == BlockEncrypt(key, Xor(Head(data), prev))
         IN  <<y>> \o CbcEncryptFrom(key, Tail(data), y)
CbcEncrypt(key, data) == CbcEncryptFrom(key, data, IV)

\* C16: the output chunks are the input chunks read so far, in stream order;
\* chunk i (from 0) was passed to the cipher if and only if i is a multiple
\* of 3 and the chunk has exactly 2048 bytes, and is then the CBC decryption
\* of input chunk i under the derived key and the fixed IV; every other
\* output chunk is the input chunk itself.
C16_EveryThirdFullChunkDeciphered ==
    Answered =>
        /\ Len(decrypted_data) = iterations
        /\ iterations <= Len(stream)
        /\ call.err = "Completed" => iterations = Len(stream)
        /\ \A i \in 0..(iterations - 1) :
            LET input == stream[i + 1]
                output == decrypted_data[i + 1]
            IN  /\ i \in deciphered <=>
                      (i % 3 = 0 /\ input.len = 2048)
                /\ i \in deciphered =>
                      output = [len |-> input.len,
                                data |-> CbcDecrypt(blowfish_key, input.data)]
                /\ i \notin deciphered => output = input

\* C16 witness: of four full chunks the first and the fourth are deciphered,
\* the two between them are not
C16_Witness ==
    /\ call.op = "stream"
    /\ call.err = "Completed"
    /\ call.resp.length = 4 * ChunkSize
    /\ deciphered = {0, 3}
    /\ decrypted_data[1] # stream[1]
    /\ decrypted_data[2] = stream[2]

\* C17: a chunk shorter than 2048 bytes is never passed to the cipher and is
\* written as it was read, also when its ordinal is a multiple of 3, so that
\* the cipher is never given a length that is no multiple of its block size.
C17_ShortChunkNeverDeciphered ==
    /\ call.err # "ValueError"
    /\ Answered =>
          \A i \in 0..(iterations - 1) :
              /\ stream[i + 1].len < ChunkSize =>
                    /\ i \notin deciphered
                    /\ decrypted_data[i + 1] = stream[i + 1]
              /\ i \in deciphered => stream[i + 1].len % BlockSize = 0

\* C17 witness: the fourth chunk of a stream of 3 * 2048 + 904 bytes is short
\* and has been written unmodified
C17_Witness ==
    /\ call.op = "stream"
    /\ call.resp.length = 3 * ChunkSize + 904
    /\ iterations = 4
    /\ stream[4].len = 904
    /\ decrypted_data[4] = stream[4]
    /\ deciphered = {0}

\* C18: the payload has exactly the bytes of the response body: every chunk
\* read is written once, with its length, none left out, added or cut.
C18_LengthPreserved ==
    Answered =>
        /\ TotalLen(stream) = call.resp.length
        /\ TotalLen(decrypted_data) = TotalLen(SubSeq(stream, 1, iterations))
        /\ \A i \in 1..Len(decrypted_data) :
              decrypted_data[i].len = stream[i].len
        /\ call.err = "Completed" =>
              TotalLen(decrypted_data) = call.resp.length

\* C18 witness: a body of two full chunks and a tail is returned whole
C18_Witness ==
    /\ call.op = "stream"
    /\ call.err = "Completed"
    /\ call.resp.length = 2 * ChunkSize + 904
    /\ TotalLen(decrypted_data) = 2 * ChunkSize + 904

\* the payload with chunks 0, 3, 6, ... encrypted again under the key
ReEncrypted(key, chunks) ==
    [i \in 1..Len(chunks) |->
        IF (i - 1) % 3 = 0
        THEN [len |-> chunks[i].len, data |-> CbcEncrypt(key, chunks[i].data)]
        ELSE chunks[i]]

\* C19: for a body whose length is a multiple of 2048 and any derived key,
\* encrypting chunks 0, 3, 6, ... of the returned payload under the same key
\* and IV gives back the body.
C19_RoundTrip ==
    (Answered /\ call.err = "Completed"
        /\ call.resp.length % ChunkSize = 0) =>
        ReEncrypted(blowfish_key, decrypted_data) = stream

\* C19 witness: a body of four full chunks has been decrypted and differs
\* from the payload in its first and fourth chunk
C19_Witness ==
    /\ call.op = "stream"
    /\ call.err = "Completed"
    /\ call.resp.length = 4 * ChunkSize
    /\ decrypted_data[1] # stream[1]
    /\ decrypted_data[4] # stream[4]
    /\ ReEncrypted(blowfish_key, decrypted_data) = stream

\* C20: the key of a track is a function of the track id and of the first 16
\* characters of the master secret alone: it has 16 bytes, byte i is
\* hash[i] xor hash[i + 16] xor secret[i] over the 32 hexadecimal characters
\* of the MD5 digest of the decimal track id, so that the same inputs give the
\* same key and two secrets with the same first 16 characters give the same
\* key; and deriving it changes nothing of the client.
C20_KeyDerivation ==
    /\ [](Answered =>
            LET hash == Md5Hex(call.request.arg) IN
            /\ Len(hash) = 32
            /\ Len(blowfish_key) = 16
            /\ \A i \in 1..16 :
                  /\ blowfish_key[i] \in 0..255
                  /\ blowfish_key[i] =
                        Xor(Xor(Ord(hash[i]), Ord(hash[i + 16])),
                            Ord(master_key[i]))
            /\ \A secret \in MasterKeys :
                  (/\ Len(secret) >= 16
                   /\ SubSeq(secret, 1, 16) = SubSeq(master_key, 1, 16)) =>
                      BlowfishKey(call.request.arg, secret) = blowfish_key)
    /\ [][blowfish_key' # blowfish_key =>
            UNCHANGED <<clientVars, master_key, downloadVars>>]_vars

\* C20 witness: the key of track 42 under a secret of 17 characters, which is
\* also its key under the first 16 of them
C20_Witness ==
    /\ call.op = "stream"
    /\ call.request.arg = "42"
    /\ master_key = DefaultKey \o <<"x">>
    /\ blowfish_key = <<118, 58, 51, 116, 97, 114, 62, 106,
                      38, 38, 98, 35, 105, 56, 42, 49>>
    /\ blowfish_key = BlowfishKey("42", DefaultKey)

\* C21: key derivation fails only for a master secret shorter than 16
\* characters: with a secret of 16 characters or more every track id gets a
\* key of 16 bytes, with a shorter secret the derivation raises.
C21_KeyDerivationFailsOnlyOnShortSecret ==
    call.op = "stream" =>
        /\ call.err = "IndexError" <=> Len(master_key) < 16
        /\ Len(master_key) >= 16 =>
              (/\ Len(blowfish_key) = 16
               /\ \A i \in 1..16 : blowfish_key[i] \in 0..255)
        /\ Len(master_key) < 16 => Len(blowfish_key) = 0

\* C21 witness: the derivation has raised for a secret of 15 characters
C21_Witness ==
    /\ call.op = "stream"
    /\ Len(master_key) = 15
    /\ call.err = "IndexError"

\* C22: the status a task records follows from how its download ended: a
\* payload that is not empty and was saved gives "completed", an empty one
\* "failed", TrackNotFoundError "not_found", URLError "url_error",
\* DownloadError "download_error" and any other exception, APIError and the
\* failures of saving and of a status write among them, "unexpected_error";
\* and "completed" is recorded only after audio.mp3 has been written.
C22_StatusFollowsOutcome ==
    \A i \in Items :
        task[i] = "returned" =>
            /\ doc_status[i] =
                  IF caught[i] = "none"
                  THEN IF track_data[i] = "payload" THEN "completed"
                       ELSE "failed"
                  ELSE IF caught[i] = "TrackNotFoundError" THEN "not_found"
                  ELSE IF caught[i] = "URLError" THEN "url_error"
                  ELSE IF caught[i] = "DownloadError" THEN "download_error"
                  ELSE "unexpected_error"
            /\ track_data[i] = "empty" /\ ~failedWrite[i] =>
                  caught[i] = "none"
            /\ track_data[i] \notin {"payload", "empty"} =>
                  caught[i] = track_data[i]
            /\ doc_status[i] = "completed" =>
                  audio[i] /\ track_data[i] = "payload"

\* C22 witness: in one batch a task has recorded "completed" with the audio
\* written, and another "url_error" after a URLError
C22_Witness ==
    \E i, j \in Items :
        /\ task[i] = "returned"
        /\ doc_status[i] = "completed"
        /\ audio[i]
        /\ task[j] = "returned"
        /\ track_data[j] = "URLError"
        /\ doc_status[j] = "url_error"

\* C23: no failure of the download or of saving leaves download_and_update
\* as an exception: unless a write of the status itself has raised, a task
\* never ends by raising, and a task that has ended has written exactly
\* one status, which is not a pending one.
C23_NoFailureLeavesTheTask ==
    \A i \in Items :
        ~failedWrite[i] =>
            /\ task[i] # "raised"
            /\ task[i] = "returned" =>
                  /\ writes[i] = 1
                  /\ doc_status[i] \notin {"none", "pending"}

\* C23 witness: two tasks have returned after one status write each, one
\* after an APIError of the download and one after saving has failed
C23_Witness ==
    \E i, j \in Items :
        /\ task[i] = "returned"
        /\ track_data[i] = "APIError"
        /\ ~failedWrite[i]
        /\ writes[i] = 1
        /\ task[j] = "returned"
        /\ track_data[j] = "payload"
        /\ caught[j] \in {"OSError", "AttributeError"}
        /\ ~failedWrite[j]
        /\ doc_status[j] = "unexpected_error"

\* C24: the read of last_request_time, the spacing wait and the write of
\* last_request_time are one atomic section: while a download is between
\* its read and its write (it sleeps), no other download reads
\* last_request_time on taking a slot, and none writes it.
C24_ReadWaitWriteAtomic ==
    [][\A p, q \in Procs :
          (p # q /\ pc[p] = "sleep") =>
              /\ ~(pc[q] = "idle" /\ pc'[q] # "idle")
              /\ ~Passes(q)]_vars

\* C25: a handshake that fails, at whatever point, leaves api_key,
\* license_token and the session cookie as they were before the attempt.
C25_FailedSetupLeavesNoPartialState ==
    [][\A p \in Procs :
          (pc[p] = "setup" /\ handshake'[p] = "failed") =>
              UNCHANGED <<api_key, license_token, headers>>]_vars

\* C26: what is written for a chunk depends on that chunk's bytes, its
\* length, its ordinal modulo 3 and the key, and on no other chunk: two
\* chunks of a stream that agree in these are written alike, and reading a
\* further chunk changes nothing of what was written for the chunks before.
C26_ChunksAreIndependent ==
    /\ [](\A i, j \in 1..Len(decrypted_data) :
            (stream[i] = stream[j] /\ i % Stride = j % Stride) =>
                decrypted_data[i] = decrypted_data[j])
    /\ [][call.err = "reading" => IsPrefix(decrypted_data, decrypted_data')]_vars

\* C26 witness: the first and the fourth chunk of a stream are equal and
\* both deciphered, after different chunks, and are written alike
C26_Witness ==
    /\ call.op = "stream"
    /\ Len(decrypted_data) >= 4
    /\ stream[1] = stream[4]
    /\ stream[3] # stream[4]
    /\ deciphered = {0, 3}
    /\ decrypted_data[1] = decrypted_data[4]
    /\ decrypted_data[4] # stream[4]

\* C27: the token a download sends to get_url is the one its own song.getData
\* returned, for the track its own ISRC lookup resolved, and the key is
\* derived from that resolved id; each token is sent in one request only,
\* and a download that has got a token has sent it exactly once.
C27_ValuesStayWithTheirDownload ==
    /\ \A k \in 1..Len(negotiated) :
          /\ negotiated[k][2] = fetched[negotiated[k][1]]
          /\ negotiated[k][2][1] = resolved[negotiated[k][1]]
          /\ \A l \in 1..Len(negotiated) :
                negotiated[l][2] = negotiated[k][2] => l = k
    /\ \A p \in Procs :
          /\ fetched[p] # None =>
                Cardinality({k \in 1..Len(negotiated) :
                               negotiated[k] = <<p, fetched[p]>>}) = 1
          /\ url[p] # None => url[p] = <<"url", fetched[p]>>
          /\ keyed[p] # None => keyed[p] = resolved[p]

\* C27 witness: two downloads of the same track have run interleaved, each
\* has sent its own token and has derived its key
C27_Witness ==
    \E p, q \in Procs :
        /\ p # q
        /\ resolved[p] = resolved[q]
        /\ fetched[p] # None /\ fetched[q] # None
        /\ negotiated = <<<<p, fetched[p]>>, <<q, fetched[q]>>>>
        /\ keyed[p] = "42" /\ keyed[q] = "42"
        /\ pc[p] = "request" /\ pc[q] = "request"

\* C28: a download holds exactly one slot of the semaphore from before its
\* spacing check until it has ended, however it ends: the free slots are
\* the 30 less the downloads that have begun and not ended, and once every
\* download has ended all 30 are free.
C28_OneSlotPerRunningDownload ==
    /\ rate_limit_semaphore =
          RateLimit - Cardinality({p \in Procs : pc[p] \notin {"idle", "done"}})
    /\ (\A p \in Procs : pc[p] = "done") => rate_limit_semaphore = RateLimit

\* C28 witness: every download has ended, one by returning and one by
\* raising, and all the slots are free
C28_Witness ==
    /\ \A p \in Procs : pc[p] = "done"
    /\ \E p, q \in Procs :
          /\ outcome[p] = "Completed"
          /\ outcome[q] \notin {"Completed", "none"}
    /\ rate_limit_semaphore = RateLimit

C30_BatchLoopMakesProgress ==
    /\ [][(loop = "find" /\ loop' = "gather") =>
            \A i \in batch' : doc_status[i] \in {"none", "pending"}]_vars
    /\ [][(loop = "gather" /\ loop' # "gather") =>
            \A i \in batch : doc_status'[i] \notin {"none", "pending"}]_vars
    /\ [](\A i \in Items : downloads[i] <= 1)
    /\ [](batches <= NumItems)

====
